---- MODULE Spec2Model ----
(***************************************************************************)
(* Model of the Lee speckle filter of the Sentinel-1 backscatter notebooks *)
(* (lee_filter, apply_lee_filter) and of the notebook cells that feed it.  *)
(*                                                                         *)
(* Samples are IEEE-754 doubles without rounding: a sample is a pair       *)
(* <<n, d>>; d > 0 is the exact rational n/d in lowest terms, and d = 0    *)
(* is one of the three special values NaN, +infinity, -infinity.  The      *)
(* arithmetic follows IEEE-754 on the special values (0/0 = NaN,           *)
(* inf - inf = NaN, 0 * inf = NaN, x/0 = +-inf); zero carries no sign.     *)
(* A raster slice is a sequence of rows, img[y][x]; a stack is a sequence  *)
(* of slices along the leading "time" dimension.                           *)
(*                                                                         *)
(* lee_filter and apply_lee_filter are modelled from their definitions in  *)
(* uow_loading_example.ipynb; loading_with_stac.ipynb imports the same two *)
(* functions from speckle_filters.  In the "uow" notebook the band is      *)
(* converted to decibels before it is filtered, in the "stac" notebook the *)
(* linear band is filtered.                                                *)
(***************************************************************************)
EXTENDS Integers, Sequences, FiniteSets, TLC

VARIABLES notebook, ds, size, data_array, data_array_filled, filtered_data, pc,
          timestep, exported, files, output_dir, runs

vars == <<notebook, ds, size, data_array, data_array_filled, filtered_data, pc,
          timestep, exported, files, output_dir, runs>>

\* The disk, and the number of runs of the export cells started so far.
disk == <<files, output_dir, runs>>

(* ------------------------------ bounds --------------------------------- *)

\* Largest height and width of a loaded slice.
MaxDim == 2
\* Backscatter samples are 0 and the powers of ten 10^0 .. 10^MaxExp.
MaxExp == 1
\* Window sizes are drawn from 0 .. MaxSize (0 stands for the non-positive sizes).
MaxSize == 3
\* Number of time steps of a loaded dataset.
NTime == 2
\* The export cells are run at most MaxRuns times.
MaxRuns == 2

(* --------------------------- IEEE-754 values --------------------------- *)

NaN == <<0, 0>>
PInf == <<1, 0>>
NInf == <<-1, 0>>
Zero == <<0, 1>>
One == <<1, 1>>

Int2V(n) == <<n, 1>>

IsFinite(v) == v[2] # 0

Abs(n) == IF n < 0 THEN -n ELSE n

Sign(v) == IF v[1] > 0 THEN 1 ELSE IF v[1] < 0 THEN -1 ELSE 0

RECURSIVE GCD(_, _)
GCD(a, b) == IF b = 0 THEN a ELSE GCD(b, a % b)

\* The rational n/d (d > 0) in lowest terms.
Norm(n, d) == IF n = 0 THEN Zero ELSE LET g == GCD(Abs(n), d) IN <<n \div g, d \div g>>

Neg(a) == <<-a[1], a[2]>>

Add(a, b) ==
    IF a = NaN \/ b = NaN THEN NaN
    ELSE IF IsFinite(a) /\ IsFinite(b)
         THEN LET g == GCD(a[2], b[2])
              IN Norm(a[1] * (b[2] \div g) + b[1] * (a[2] \div g), (a[2] \div g) * b[2])
    ELSE IF IsFinite(b) THEN a
    ELSE IF IsFinite(a) THEN b
    ELSE IF a = b THEN a ELSE NaN

Sub(a, b) == Add(a, Neg(b))

Mul(a, b) ==
    IF a = NaN \/ b = NaN THEN NaN
    ELSE IF IsFinite(a) /\ IsFinite(b)
         THEN IF a[1] = 0 \/ b[1] = 0 THEN Zero
              ELSE LET g1 == GCD(Abs(a[1]), b[2])
                       g2 == GCD(Abs(b[1]), a[2])
                   IN <<(a[1] \div g1) * (b[1] \div g2), (a[2] \div g2) * (b[2] \div g1)>>
    ELSE IF Sign(a) * Sign(b) = 0 THEN NaN
    ELSE <<Sign(a) * Sign(b), 0>>

Div(a, b) ==
    IF a = NaN \/ b = NaN THEN NaN
    ELSE IF IsFinite(b)
         THEN IF b[1] = 0
              THEN (IF Sign(a) = 0 THEN NaN ELSE <<Sign(a), 0>>)
              ELSE Mul(a, <<Sign(b) * b[2], Abs(b[1])>>)
    ELSE IF IsFinite(a) THEN Zero ELSE NaN

\* a <= b and a < b on finite values; every comparison with NaN is false.
Leq(a, b) ==
    /\ a # NaN /\ b # NaN
    /\ IF IsFinite(a) /\ IsFinite(b) THEN a[1] * b[2] <= b[1] * a[2]
       ELSE IF IsFinite(a) THEN b = PInf
       ELSE IF IsFinite(b) THEN a = NInf
       ELSE a = NInf \/ b = PInf

Less(a, b) == Leq(a, b) /\ a # b

RECURSIVE Pow10(_)
Pow10(e) == IF e = 0 THEN 1 ELSE 10 * Pow10(e - 1)

(* ------------------------------ rasters -------------------------------- *)

\* A function on 1..n as a tuple with every element computed (an array in memory).
Array(s) == s \o <<>>

Height(img) == Len(img)
Width(img) == Len(img[1])

\* The samples of a slice in C order.
Flatten(img) ==
    Array([i \in 1..(Height(img) * Width(img)) |->
        img[((i - 1) \div Width(img)) + 1][((i - 1) % Width(img)) + 1]])

\* The sum of s[lo..hi], by halves (numpy's pairwise summation); without
\* rounding the order of the additions does not change the sum.
RECURSIVE SumRange(_, _, _)
SumRange(s, lo, hi) ==
    IF lo > hi THEN Zero
    ELSE IF lo = hi THEN s[lo]
    ELSE LET mid == (lo + hi) \div 2
         IN Add(SumRange(s, lo, mid), SumRange(s, mid + 1, hi))

SumSeq(s) == SumRange(s, 1, Len(s))

(* ------------------- scipy.ndimage.uniform_filter ---------------------- *)

\* mode="reflect" (the default of uniform_filter): the sample that position i
\* (0-based, any integer) of a line of n samples extended as
\* (d c b a | a b c d | d c b a) holds.
Reflect(i, n) == LET m == i % (2 * n) IN IF m < n THEN m ELSE 2 * n - 1 - m

\* A faulty ExtendLine: mode="constant", the line padded with zeros.
ExtendLine_Constant(line, filter_size) ==
    Array([j \in 1..(Len(line) + filter_size - 1) |->
        IF j - (filter_size \div 2) \in 1..Len(line)
        THEN line[j - (filter_size \div 2)] ELSE Zero])

\* The line extended by filter_size \div 2 samples before it and by
\* filter_size - filter_size \div 2 - 1 after it (origin 0), 1-based.
ExtendLine(line, filter_size) ==
    Array([j \in 1..(Len(line) + filter_size - 1) |->
        line[Reflect(j - 1 - (filter_size \div 2), Len(line)) + 1]])

\* The running sum of uniform_filter1d: tmp holds the sum of the window of
\* output ll - 1; each step adds the sample entering and subtracts the one leaving.
RECURSIVE UniformLoop(_, _, _, _, _)
UniformLoop(iline, filter_size, ll, tmp, oline) ==
    IF ll > Len(iline) - filter_size THEN oline
    ELSE LET t2 == Add(tmp, Sub(iline[ll + filter_size], iline[ll]))
         IN UniformLoop(iline, filter_size, ll + 1, t2,
                        Append(oline, Div(t2, Int2V(filter_size))))

uniform_filter1d(line, filter_size) ==
    LET iline == ExtendLine(line, filter_size)
        tmp == SumRange(iline, 1, filter_size)
    IN UniformLoop(iline, filter_size, 1, tmp, <<Div(tmp, Int2V(filter_size))>>)

\* One pass along axis 0 (down the columns) and one along axis 1 (along the rows).
FilterAxis0(img, filter_size) ==
    LET cols == Array([x \in 1..Width(img) |->
                    uniform_filter1d(Array([y \in 1..Height(img) |-> img[y][x]]), filter_size)])
    IN Array([y \in 1..Len(cols[1]) |-> Array([x \in 1..Width(img) |-> cols[x][y]])])

\* A faulty FilterAxis1: only the windows that fit in the row are returned.
FilterAxis1_Valid(img, filter_size) ==
    Array([y \in 1..Height(img) |->
        LET row == uniform_filter1d(img[y], filter_size)
        IN SubSeq(row, 1, IF Len(row) >= filter_size THEN Len(row) - filter_size + 1 ELSE 0)])

FilterAxis1(img, filter_size) ==
    Array([y \in 1..Height(img) |-> uniform_filter1d(img[y], filter_size)])

\* A faulty uniform_filter: the rows are filtered, the columns are not.
uniform_filter_RowsOnly(img, filter_size) ==
    IF filter_size > 1 THEN FilterAxis1(img, filter_size) ELSE img

\* uniform_filter(input, size): the axes whose size is > 1 are filtered one
\* after the other; when there is none the input is copied to the output.
uniform_filter(img, filter_size) ==
    IF filter_size > 1 THEN FilterAxis1(FilterAxis0(img, filter_size), filter_size)
    ELSE img

(* ------------------------------ numpy ---------------------------------- *)

Square(v) == Mul(v, v)

\* img**2
SquareImg(img) ==
    Array([y \in 1..Height(img) |-> Array([x \in 1..Width(img) |-> Square(img[y][x])])])

\* np.mean over the flattened array.
np_mean(img) == Div(SumSeq(Flatten(img)), Int2V(Height(img) * Width(img)))

\* np.var: the mean of the squared deviations from the mean (ddof = 0).
np_var(img) ==
    LET m == np_mean(img)
    IN np_mean(Array([y \in 1..Height(img) |-> Array([x \in 1..Width(img) |->
            Square(Sub(img[y][x], m))])]))

(* ------------------------------ lee_filter ----------------------------- *)

\* img_mean = uniform_filter(img, size)
img_mean(img, filter_size) == uniform_filter(img, filter_size)

\* img_sqr_mean = uniform_filter(img**2, size)
img_sqr_mean(img, filter_size) == uniform_filter(SquareImg(img), filter_size)

\* img_variance = img_sqr_mean - img_mean**2
VarianceOf(sqr_mean, mean) == Sub(sqr_mean, Square(mean))

img_variance(img, filter_size) ==
    LET sqr_mean == img_sqr_mean(img, filter_size)
        mean == img_mean(img, filter_size)
    IN Array([y \in 1..Height(mean) |-> Array([x \in 1..Width(mean) |->
            VarianceOf(sqr_mean[y][x], mean[y][x])])])

\* overall_variance = np.var(img)
overall_variance(img) == np_var(img)

\* img_weights = img_variance / (img_variance + overall_variance)
WeightOf(variance, overall) == Div(variance, Add(variance, overall))

img_weights(img, filter_size) ==
    LET overall == overall_variance(img)
        variance == img_variance(img, filter_size)
    IN Array([y \in 1..Height(variance) |-> Array([x \in 1..Width(variance) |->
            WeightOf(variance[y][x], overall)])])

\* A faulty OutputOf: the weighted residual without the local mean.
OutputOf_Residual(sample, mean, weight) == Mul(weight, Sub(sample, mean))

\* img_output = img_mean + img_weights * (img - img_mean)
OutputOf(sample, mean, weight) == Add(mean, Mul(weight, Sub(sample, mean)))

img_output(img, filter_size) ==
    LET mean == img_mean(img, filter_size)
        weights == img_weights(img, filter_size)
    IN Array([y \in 1..Height(mean) |-> Array([x \in 1..Width(mean) |->
            OutputOf(img[y][x], mean[y][x], weights[y][x])])])

lee_filter(img, filter_size) == img_output(img, filter_size)

(* --------------------------- apply_lee_filter -------------------------- *)

\* DataArray.fillna(0): a NaN sample becomes 0, every other sample is kept.
fillna(v) == IF v = NaN THEN Zero ELSE v

FillnaImg(img) ==
    Array([y \in 1..Height(img) |-> Array([x \in 1..Width(img) |-> fillna(img[y][x])])])

\* The exponent k of a positive power of ten n = 10^k.
RECURSIVE Log10Int(_)
Log10Int(n) == CASE n = 1 -> 0
                 [] n > 1 /\ n % 10 = 0 -> 1 + Log10Int(n \div 10)

\* A faulty log10: the logarithm of a sample that is not positive clipped to 0.
log10_Clipped(v) ==
    IF v = NaN THEN NaN
    ELSE IF v = PInf THEN PInf
    ELSE IF v[1] <= 0 THEN Zero
    ELSE IF v[1] = v[2] THEN Zero
    ELSE <<v[1], v[2], 1>>

RECURSIVE IsPow10(_)
IsPow10(n) == n = 1 \/ (n > 1 /\ n % 10 = 0 /\ IsPow10(n \div 10))

\* np.log10.  The logarithm of a positive rational n/d is rational only when
\* n/d is a power of ten; every other logarithm is kept as the term
\* <<n, d, c>>, which stands for c * log10(n/d).
log10(v) ==
    IF v = NaN \/ v = NInf THEN NaN
    ELSE IF v = PInf THEN PInf
    ELSE IF v[1] < 0 THEN NaN
    ELSE IF v[1] = 0 THEN NInf
    ELSE IF IsPow10(v[1]) /\ IsPow10(v[2]) THEN <<Log10Int(v[1]) - Log10Int(v[2]), 1>>
    ELSE <<v[1], v[2], 1>>

\* A logarithm kept as a term.
IsLogTerm(v) == Len(v) = 3

\* 20 * np.log10(x), the decibels of an amplitude: a faulty ToDb.
ToDb_Amplitude(v) ==
    LET l == log10(v)
    IN IF IsLogTerm(l) THEN <<l[1], l[2], 20 * l[3]>> ELSE Mul(Int2V(20), l)

\* 10 * np.log10(x)
ToDb(v) ==
    LET l == log10(v)
    IN IF IsLogTerm(l) THEN <<l[1], l[2], 10 * l[3]>> ELSE Mul(Int2V(10), l)

ToDbImg(img) ==
    Array([y \in 1..Height(img) |-> Array([x \in 1..Width(img) |-> ToDb(img[y][x])])])

BandName(nb) == IF nb = "uow" THEN "HH" ELSE "VV"
FilteredName(nb) == IF nb = "uow" THEN "HH_dB_filtered" ELSE "VV_filtered"
\* The layer each notebook hands to apply_lee_filter.
FilterInputName(nb) == IF nb = "uow" THEN "HH_db" ELSE "VV"

(* ------------------------------ inputs --------------------------------- *)

FiniteSamples == {Zero} \cup {Int2V(Pow10(e)) : e \in 0..MaxExp}

\* The samples of a loaded band in a fixed order: the finite ones, then no-data.
SampleSeq == <<Zero>> \o [e \in 1..(MaxExp + 1) |-> Int2V(Pow10(e - 1))] \o <<NaN>>

SampleIndex(v) == CHOOSE i \in 1..Len(SampleSeq) : SampleSeq[i] = v

\* The k-th sample after v in SampleSeq, cyclically.
NextSample(v, k) == SampleSeq[((SampleIndex(v) - 1 + k) % Len(SampleSeq)) + 1]

\* A slice of background b with the sample v at (py, px).
SpikeImage(h, w, b, py, px, v) ==
    Array([y \in 1..h |-> Array([x \in 1..w |-> IF y = py /\ x = px THEN v ELSE b])])

\* A loaded band of NTime time steps: the same scene at every time step, the
\* sample at (py, px) changing from one time step to the next.
LoadedBand(h, w, b, py, px, v) ==
    Array([t \in 1..NTime |-> SpikeImage(h, w, b, py, px, NextSample(v, t - 1))])

LoadedBands ==
    {LoadedBand(h, w, b, py, px, v) :
        h \in 1..MaxDim, w \in 1..MaxDim, b \in FiniteSamples,
        py \in 1..MaxDim, px \in 1..MaxDim, v \in FiniteSamples \cup {NaN}}

\* The mask values: 0 valid, 1 shadow, 2 layover, 3 shadow and layover, 255 or
\* NaN invalid, and 4 for the values outside the enumeration.
MaskCodes ==
    <<Zero, Int2V(1), Zero, Int2V(2), Zero, Int2V(3), Zero, Int2V(255), Zero, NaN,
      Zero, Int2V(4)>>

\* The mask loaded with a band: one code per cell and time step, the codes
\* shifting from cell to cell, from time step to time step and with the samples
\* of the band.
LoadedMask(band) ==
    LET k == SampleIndex(band[1][1][1])
               + 3 * SampleIndex(band[1][Height(band[1])][Width(band[1])])
    IN Array([t \in 1..Len(band) |->
          Array([y \in 1..Height(band[t]) |-> Array([x \in 1..Width(band[t]) |->
              MaskCodes[((k + 5 * t + y + 2 * x) % Len(MaskCodes)) + 1]])])])

\* The time coordinate loaded with a band, in hours since 2024-01-01T00:00: the
\* first time step at 06:00, the next ones 12 or 24 hours apart, so that two
\* time steps of some datasets fall on one calendar date.
LoadedTime(band) ==
    LET gap == IF SampleIndex(band[1][1][1]) % 2 = 0 THEN 12 ELSE 24
    IN Array([t \in 1..Len(band) |-> 6 + gap * (t - 1)])

\* The layers load(...) returns: the band, and in the "stac" notebook its mask
\* and the time coordinate the export reads.
Loaded(nb, band) ==
    IF nb = "uow" THEN (BandName(nb) :> band)
    ELSE (BandName(nb) :> band) @@ ("mask" :> LoadedMask(band))
            @@ ("time" :> LoadedTime(band))

\* The groupby argument of the load call of a dataset of the "stac" notebook.
groupby(dataset) == IF dataset = "ant_ds" THEN "nrb:scene_id" ELSE "solar_day"

\* ds[name] = value
Assign(dataset, name, value) == (name :> value) @@ dataset

\* The end-to-end scenario: one 7x7 slice, 1 everywhere, 10 at the centre.
ScenarioBand == <<SpikeImage(7, 7, One, 4, 4, Int2V(10))>>
Sizes == 0..MaxSize

(* --------------------------- the notebooks ----------------------------- *)

Init ==
    /\ notebook \in {"uow", "stac"}
    /\ \/ \E band \in LoadedBands : ds = Loaded(notebook, band) /\ size \in Sizes
       \/ ds = Loaded(notebook, ScenarioBand) /\ size = 3
    /\ data_array = <<>>
    /\ data_array_filled = <<>>
    /\ filtered_data = <<>>
    /\ pc = "loaded"
    /\ timestep = 0
    /\ exported = <<>>
    /\ files = <<>>
    /\ output_dir = FALSE
    /\ runs = 1

\* ds['HH_db'] = 10 * np.log10(ds["HH"])
ConvertToDb ==
    /\ pc = "loaded" /\ notebook = "uow"
    /\ ds' = Assign(ds, "HH_db", Array([t \in 1..Len(ds["HH"]) |-> ToDbImg(ds["HH"][t])]))
    /\ pc' = "db"
    /\ UNCHANGED <<notebook, size, data_array, data_array_filled, filtered_data,
                   timestep, exported>>
    /\ UNCHANGED disk

\* apply_lee_filter(ds.HH_db, size) / apply_lee_filter(aus_ds.VV, size): entry.
CallApplyLeeFilter ==
    /\ \/ pc = "db" /\ notebook = "uow"
       \/ pc = "loaded" /\ notebook = "stac"
    /\ data_array' = ds[FilterInputName(notebook)]
    /\ pc' = "fillna"
    /\ UNCHANGED <<notebook, ds, size, data_array_filled, filtered_data,
                   timestep, exported>>
    /\ UNCHANGED disk

\* A faulty Fillna: the no-data samples of the caller's array set to 0 in place.
Fillna_InPlace ==
    /\ pc = "fillna"
    /\ data_array_filled' = Array([t \in 1..Len(data_array) |-> FillnaImg(data_array[t])])
    /\ data_array' = data_array_filled'
    /\ ds' = Assign(ds, FilterInputName(notebook), data_array_filled')
    /\ pc' = "vectorize"
    /\ UNCHANGED <<notebook, size, filtered_data, timestep, exported>>
    /\ UNCHANGED disk

\* data_array_filled = data_array.fillna(0)
Fillna ==
    /\ pc = "fillna"
    /\ data_array_filled' = Array([t \in 1..Len(data_array) |-> FillnaImg(data_array[t])])
    /\ pc' = "vectorize"
    /\ UNCHANGED <<notebook, ds, size, data_array, filtered_data, timestep, exported>>
    /\ UNCHANGED disk

\* A faulty LeeFilterSlice: lee_filter with the variance of the whole stack in
\* the place of the variance of the slice.
StackVariance(stack) == np_var(Array([t \in 1..Len(stack) |-> Flatten(stack[t])]))

LeeWithOverall(img, filter_size, overall) ==
    LET mean == img_mean(img, filter_size)
        variance == img_variance(img, filter_size)
    IN Array([y \in 1..Height(mean) |-> Array([x \in 1..Width(mean) |->
            OutputOf(img[y][x], mean[y][x], WeightOf(variance[y][x], overall))])])

LeeFilterSlice_StackVariance ==
    /\ pc = "vectorize"
    /\ Len(filtered_data) < Len(data_array_filled)
    /\ filtered_data' =
          Append(filtered_data,
                 LeeWithOverall(data_array_filled[Len(filtered_data) + 1], size,
                                StackVariance(data_array_filled)))
    /\ UNCHANGED <<notebook, ds, size, data_array, data_array_filled, pc,
                   timestep, exported>>
    /\ UNCHANGED disk

\* xr.apply_ufunc(lee_filter, ..., input_core_dims=[["y", "x"]], vectorize=True):
\* one call of lee_filter per index of the leading dimension, in order.
LeeFilterSlice ==
    /\ pc = "vectorize"
    /\ Len(filtered_data) < Len(data_array_filled)
    /\ filtered_data' =
          Append(filtered_data, lee_filter(data_array_filled[Len(filtered_data) + 1], size))
    /\ UNCHANGED <<notebook, ds, size, data_array, data_array_filled, pc,
                   timestep, exported>>
    /\ UNCHANGED disk

\* return filtered_data, assigned to the dataset's filtered layer.
Return ==
    /\ pc = "vectorize"
    /\ Len(filtered_data) = Len(data_array_filled)
    /\ ds' = Assign(ds, FilteredName(notebook), filtered_data)
    /\ pc' = "filtered"
    /\ UNCHANGED <<notebook, size, data_array, data_array_filled, filtered_data,
                   timestep, exported>>
    /\ UNCHANGED disk

\* ds['HH_dB_filtered'].isel(time=0).odc.write_cog("sentinel1_example.tif", overwrite=True)
\* overwrite=True: the file is written whether it exists or not.
WriteCogUow ==
    /\ pc \in {"filtered", "rerun"} /\ notebook = "uow"
    /\ exported' = Append(exported, [cell |-> "write_cog", timestep |-> 0,
                                     filename |-> <<"sentinel1_example.tif">>,
                                     array |-> ds["HH_dB_filtered"][1]])
    /\ files' = Assign(files, <<"sentinel1_example.tif">>, ds["HH_dB_filtered"][1])
    /\ pc' = "done"
    /\ UNCHANGED <<notebook, ds, size, data_array, data_array_filled, filtered_data,
                   timestep, output_dir, runs>>

\* xr.where(cond, x, np.nan) on one cell: x where cond holds, NaN elsewhere.
where(cond, x, y) == IF cond THEN x ELSE y

\* A faulty WhereImg: a cell whose mask is NaN is kept as if it were valid.
WhereImg_NaNValid(mask, layer) ==
    Array([y \in 1..Height(layer) |-> Array([x \in 1..Width(layer) |->
        where(mask[y][x] = Zero \/ mask[y][x] = NaN, layer[y][x], NaN)])])

\* xr.where(mask == 0, layer, np.nan) on one time step.
WhereImg(mask, layer) ==
    Array([y \in 1..Height(layer) |-> Array([x \in 1..Width(layer) |->
        where(mask[y][x] = Zero, layer[y][x], NaN)])])

\* A faulty ApplyMask: the mask of the first time step applied to every time step.
ApplyMask_FirstTimestep ==
    /\ pc = "filtered" /\ notebook = "stac"
    /\ ds' = Assign(ds, "VV_filtered_masked",
                    Array([t \in 1..Len(ds["VV_filtered"]) |->
                        WhereImg(ds["mask"][1], ds["VV_filtered"][t])]))
    /\ pc' = "masked"
    /\ UNCHANGED <<notebook, size, data_array, data_array_filled, filtered_data,
                   timestep, exported>>
    /\ UNCHANGED disk

\* aus_ds["VV_filtered_masked"] = xr.where(aus_ds.mask == 0, aus_ds.VV_filtered, np.nan)
ApplyMask ==
    /\ pc = "filtered" /\ notebook = "stac"
    /\ ds' = Assign(ds, "VV_filtered_masked",
                    Array([t \in 1..Len(ds["VV_filtered"]) |->
                        WhereImg(ds["mask"][t], ds["VV_filtered"][t])]))
    /\ pc' = "masked"
    /\ UNCHANGED <<notebook, size, data_array, data_array_filled, filtered_data,
                   timestep, exported>>
    /\ UNCHANGED disk

\* A faulty ConvertMaskedToDb: the decibel cell run before the masking cell, on the
\* filtered layer.
ConvertMaskedToDb_BeforeMask ==
    /\ pc = "filtered" /\ notebook = "stac"
    /\ ds' = Assign(ds, "VV_filtered_masked_db",
                    Array([t \in 1..Len(ds["VV_filtered"]) |->
                        ToDbImg(ds["VV_filtered"][t])]))
    /\ pc' = "masked_db"
    /\ UNCHANGED <<notebook, size, data_array, data_array_filled, filtered_data,
                   timestep, exported>>
    /\ UNCHANGED disk

\* A faulty ConvertMaskedToDb: the filtered layer is converted, not the masked one.
ConvertMaskedToDb_Unmasked ==
    /\ pc = "masked"
    /\ ds' = Assign(ds, "VV_filtered_masked_db",
                    Array([t \in 1..Len(ds["VV_filtered"]) |->
                        ToDbImg(ds["VV_filtered"][t])]))
    /\ pc' = "masked_db"
    /\ UNCHANGED <<notebook, size, data_array, data_array_filled, filtered_data,
                   timestep, exported>>
    /\ UNCHANGED disk

\* A faulty ConvertMaskedToDb: the masked layer is converted in place before the
\* result is stored.
ConvertMaskedToDb_InPlace ==
    /\ pc = "masked"
    /\ ds' = Assign(Assign(ds, "VV_filtered_masked",
                           Array([t \in 1..Len(ds["VV_filtered_masked"]) |->
                               ToDbImg(ds["VV_filtered_masked"][t])])),
                    "VV_filtered_masked_db",
                    Array([t \in 1..Len(ds["VV_filtered_masked"]) |->
                        ToDbImg(ds["VV_filtered_masked"][t])]))
    /\ pc' = "masked_db"
    /\ UNCHANGED <<notebook, size, data_array, data_array_filled, filtered_data,
                   timestep, exported>>
    /\ UNCHANGED disk

\* aus_ds["VV_filtered_masked_db"] = 10 * np.log10(aus_ds.VV_filtered_masked)
ConvertMaskedToDb ==
    /\ pc = "masked"
    /\ ds' = Assign(ds, "VV_filtered_masked_db",
                    Array([t \in 1..Len(ds["VV_filtered_masked"]) |->
                        ToDbImg(ds["VV_filtered_masked"][t])]))
    /\ pc' = "masked_db"
    /\ UNCHANGED <<notebook, size, data_array, data_array_filled, filtered_data,
                   timestep, exported>>
    /\ UNCHANGED disk

\* The prefix of the file names of a notebook.
NotebookPrefix(nb) == IF nb = "stac" THEN "STAC" ELSE "Datacube"

\* f"{prefix}_{region}_{band}_filtered_masked_db_single_timestep.cog": a file name
\* is the tuple of the parts its text is made of.
SingleName(nb, region, band) ==
    <<NotebookPrefix(nb), region, band, "filtered_masked_db_single_timestep.cog">>

\* A faulty LoopName: the file name without the time index.
LoopName_DateOnly(nb, region, band, k, date) ==
    <<NotebookPrefix(nb), region, band, "filtered_masked_db_t", 0, date, ".cog">>

\* f"{prefix}_{region}_{band}_filtered_masked_db_t{timestep}_{dt_strings[timestep]}.cog"
LoopName(nb, region, band, k, date) ==
    <<NotebookPrefix(nb), region, band, "filtered_masked_db_t", k, date, ".cog">>

\* time.dt.strftime("%Y-%m-%d"): the calendar date <<year, month, day>> of a time
\* stamp of January 2024; the time of day is dropped.
strftime(hours) == <<2024, 1, 1 + (hours \div 24)>>

\* A faulty MakeOutputDir: mkdir() without exist_ok raises FileExistsError when
\* the folder exists.
MakeOutputDir_NoExistOk ==
    /\ pc \in {"masked_db", "rerun"} /\ notebook = "stac"
    /\ output_dir' = TRUE
    /\ pc' = IF output_dir THEN "error" ELSE "export"
    /\ UNCHANGED <<notebook, ds, size, data_array, data_array_filled, filtered_data,
                   timestep, exported, files, runs>>

\* output_path = pathlib.Path("outputs"); output_path.mkdir(exist_ok=True): the
\* folder is created, or left as it is when it exists.
MakeOutputDir ==
    /\ pc \in {"masked_db", "rerun"} /\ notebook = "stac"
    /\ output_dir' = TRUE
    /\ pc' = "export"
    /\ UNCHANGED <<notebook, ds, size, data_array, data_array_filled, filtered_data,
                   timestep, exported, files, runs>>

\* write_cog(aus_ds.VV_filtered_masked_db.isel(time=0), output_path / "...", overwrite=True),
\* and the entry of the loop over the time steps.
WriteCogSingle ==
    /\ pc = "export"
    /\ exported' = Append(exported, [cell |-> "write_cog", timestep |-> 0,
                                     filename |-> SingleName(notebook, "Australia", "VV"),
                                     array |-> ds["VV_filtered_masked_db"][1]])
    /\ files' = Assign(files, SingleName(notebook, "Australia", "VV"),
                       ds["VV_filtered_masked_db"][1])
    /\ timestep' = 0
    /\ pc' = "loop"
    /\ UNCHANGED <<notebook, ds, size, data_array, data_array_filled, filtered_data,
                   output_dir, runs>>

\* A faulty WriteCogLoop: isel(time=0) in every iteration.
WriteCogLoop_FirstTimestep ==
    /\ pc = "loop"
    /\ timestep < Len(ds["time"])
    /\ LET filename == LoopName(notebook, "Australia", "VV", timestep,
                                strftime(ds["time"][timestep + 1]))
           array == ds["VV_filtered_masked_db"][1]
       IN /\ exported' = Append(exported, [cell |-> "loop", timestep |-> timestep,
                                           filename |-> filename, array |-> array])
          /\ files' = Assign(files, filename, array)
    /\ timestep' = timestep + 1
    /\ UNCHANGED <<notebook, ds, size, data_array, data_array_filled, filtered_data, pc,
                   output_dir, runs>>

\* aus_dt_strings = aus_ds.time.dt.strftime("%Y-%m-%d").values
\* for timestep in range(len(aus_ds.time)):
\*     filename = output_path / f"STAC_Australia_VV_filtered_masked_db_t{timestep}_{...}.cog"
\*     array = aus_ds.VV_filtered_masked_db.isel(time=timestep)
\*     write_cog(array, filename, overwrite=True)
WriteCogLoop ==
    /\ pc = "loop"
    /\ timestep < Len(ds["time"])
    /\ LET filename == LoopName(notebook, "Australia", "VV", timestep,
                                strftime(ds["time"][timestep + 1]))
           array == ds["VV_filtered_masked_db"][timestep + 1]
       IN /\ exported' = Append(exported, [cell |-> "loop", timestep |-> timestep,
                                           filename |-> filename, array |-> array])
          /\ files' = Assign(files, filename, array)
    /\ timestep' = timestep + 1
    /\ UNCHANGED <<notebook, ds, size, data_array, data_array_filled, filtered_data, pc,
                   output_dir, runs>>

\* range(len(aus_ds.time)) is exhausted.
LoopEnd ==
    /\ pc = "loop"
    /\ timestep >= Len(ds["time"])
    /\ pc' = "done"
    /\ UNCHANGED <<notebook, ds, size, data_array, data_array_filled, filtered_data,
                   timestep, exported>>
    /\ UNCHANGED disk

\* The export cells are run again, in document order, on the same dataset.
RunExportAgain ==
    /\ pc = "done"
    /\ runs < MaxRuns
    /\ runs' = runs + 1
    /\ exported' = <<>>
    /\ pc' = "rerun"
    /\ UNCHANGED <<notebook, ds, size, data_array, data_array_filled, filtered_data,
                   timestep, files, output_dir>>

Next ==
    \/ ConvertToDb \/ CallApplyLeeFilter \/ Fillna \/ LeeFilterSlice \/ Return
    \/ WriteCogUow \/ ApplyMask \/ ConvertMaskedToDb
    \/ MakeOutputDir \/ WriteCogSingle \/ WriteCogLoop \/ LoopEnd
    \/ RunExportAgain

Spec == Init /\ [][Next]_vars

\* The for loop of the export runs on: an iteration that can be taken is taken,
\* and the loop is left once range(len(aus_ds.time)) is exhausted.
SpecFair == Init /\ [][Next]_vars /\ WF_vars(WriteCogLoop) /\ WF_vars(LoopEnd)

(* ---------------- a dataset whose mask has no time axis ---------------- *)

\* A dataset whose mask has the dimensions (y, x) and whose band has the
\* dimensions (time, y, x): the mask is one raster, the band a stack of rasters.
\* A Dataset holds variables of different dimensions as long as the dimensions
\* they share have the same length.
LoadedNoTimeMask(band) == ("VV" :> band) @@ ("mask" :> LoadedMask(band)[1])

InitMismatch ==
    /\ notebook = "stac"
    /\ \E band \in LoadedBands : ds = LoadedNoTimeMask(band)
    /\ size \in Sizes
    /\ data_array = <<>>
    /\ data_array_filled = <<>>
    /\ filtered_data = <<>>
    /\ pc = "loaded"
    /\ timestep = 0
    /\ exported = <<>>
    /\ files = <<>>
    /\ output_dir = FALSE
    /\ runs = 1

\* xr.where(aus_ds.mask == 0, aus_ds.VV_filtered, np.nan) with a mask of
\* dimensions (y, x): xr.where broadcasts its arguments by dimension name, so
\* the one mask raster is applied to every time step; no shape is compared.
ApplyMaskBroadcast ==
    /\ pc = "filtered" /\ notebook = "stac"
    /\ ds' = Assign(ds, "VV_filtered_masked",
                    Array([t \in 1..Len(ds["VV_filtered"]) |->
                        WhereImg(ds["mask"], ds["VV_filtered"][t])]))
    /\ pc' = "masked"
    /\ UNCHANGED <<notebook, size, data_array, data_array_filled, filtered_data,
                   timestep, exported>>
    /\ UNCHANGED disk

NextMismatch ==
    CallApplyLeeFilter \/ Fillna \/ LeeFilterSlice \/ Return \/ ApplyMaskBroadcast

SpecMismatch == InitMismatch /\ [][NextMismatch]_vars

(* ------------- apply_lee_filter on a chunked (dask) array -------------- *)

\* xr.apply_ufunc(..., dask="parallelized", dask_gufunc_kwargs={"allow_rechunk":
\* True}) on an array loaded with chunks={} and not yet computed: the blocks along
\* the leading dimension are filtered by the workers of the scheduler in any
\* order.  filtered_data[t] is <<>> while the block of time step t is pending.
BlockDone(t) == t <= Len(filtered_data) /\ filtered_data[t] # <<>>

\* filtered_data with the block of time step t set to result.
WithBlock(t, result) ==
    Array([u \in 1..(IF t > Len(filtered_data) THEN t ELSE Len(filtered_data)) |->
        IF u = t THEN result ELSE IF BlockDone(u) THEN filtered_data[u] ELSE <<>>])

\* A faulty DaskFilterSlice: the overall variance is kept in one variable shared
\* by the workers; a worker that finds it written by an earlier block uses it.
DaskFilterSlice_SharedAccumulator ==
    /\ pc = "vectorize"
    /\ \E t \in 1..Len(data_array_filled) :
          /\ ~BlockDone(t)
          /\ filtered_data' =
                WithBlock(t, LeeWithOverall(data_array_filled[t], size,
                    IF \E u \in 1..Len(filtered_data) : BlockDone(u)
                    THEN overall_variance(data_array_filled[
                            CHOOSE u \in 1..Len(filtered_data) : BlockDone(u)])
                    ELSE overall_variance(data_array_filled[t])))
    /\ UNCHANGED <<notebook, ds, size, data_array, data_array_filled, pc,
                   timestep, exported>>
    /\ UNCHANGED disk

\* One worker filters one pending block: lee_filter on the slice of that block.
DaskFilterSlice ==
    /\ pc = "vectorize"
    /\ \E t \in 1..Len(data_array_filled) :
          /\ ~BlockDone(t)
          /\ filtered_data' = WithBlock(t, lee_filter(data_array_filled[t], size))
    /\ UNCHANGED <<notebook, ds, size, data_array, data_array_filled, pc,
                   timestep, exported>>
    /\ UNCHANGED disk

\* Every block is done: the blocks are assembled and returned.
DaskReturn ==
    /\ pc = "vectorize"
    /\ \A t \in 1..Len(data_array_filled) : BlockDone(t)
    /\ ds' = Assign(ds, FilteredName(notebook), filtered_data)
    /\ pc' = "filtered"
    /\ UNCHANGED <<notebook, size, data_array, data_array_filled, filtered_data,
                   timestep, exported>>
    /\ UNCHANGED disk

InitDask == Init /\ notebook = "stac"

NextDask == CallApplyLeeFilter \/ Fillna \/ DaskFilterSlice \/ DaskReturn

SpecDask == InitDask /\ [][NextDask]_vars


(* ===================== properties of the Lee filter ==================== *)

\* The slices lee_filter has been called on so far.
Filtered == 1..Len(filtered_data)

\* The slice lee_filter has just returned, in the state after its call; every
\* filtered slice is the newest one in exactly one state.
Newest == IF pc = "vectorize" THEN {Len(filtered_data)} \ {0} ELSE {}

Pixels(img) == (1..Height(img)) \X (1..Width(img))

FiniteImg(img) == \A p \in Pixels(img) : IsFinite(img[p[1]][p[2]])

UniformImg(img) == \A p \in Pixels(img) : img[p[1]][p[2]] = img[1][1]

\* The samples of the filter_size x filter_size window at (y, x): the offsets
\* -(filter_size \div 2) .. filter_size - filter_size \div 2 - 1 on both axes
\* (centred at the pixel for an odd size), read through the reflect extension.
Window(img, filter_size, y, x) ==
    Array([k \in 1..(filter_size * filter_size) |->
        img[Reflect(y - 1 - (filter_size \div 2) + ((k - 1) \div filter_size), Height(img)) + 1]
           [Reflect(x - 1 - (filter_size \div 2) + ((k - 1) % filter_size), Width(img)) + 1]])

SquareAll(s) == Array([k \in 1..Len(s) |-> Square(s[k])])

\* Arithmetic mean of a sequence of samples.
MeanOf(s) == Div(SumSeq(s), Int2V(Len(s)))

local_mean(img, filter_size, y, x) == MeanOf(Window(img, filter_size, y, x))

local_sq_mean(img, filter_size, y, x) == MeanOf(SquareAll(Window(img, filter_size, y, x)))

local_variance(img, filter_size, y, x) ==
    Sub(local_sq_mean(img, filter_size, y, x), Square(local_mean(img, filter_size, y, x)))

\* E[x^2] - E[x]^2 over the whole slice.
SliceVariance(img) ==
    Sub(MeanOf(SquareAll(Flatten(img))), Square(MeanOf(Flatten(img))))

\* The Lee estimate at (y, x), from the window statistics and one slice variance.
LeeAt(img, filter_size, overall, y, x) ==
    LET m == local_mean(img, filter_size, y, x)
        v == local_variance(img, filter_size, y, x)
        w == Div(v, Add(v, overall))
    IN Add(m, Mul(w, Sub(img[y][x], m)))

\* C1: lee_filter returns at every pixel local_mean + weight * (input - local_mean),
\* with local_mean and local_sq_mean the means over the size x size window at the
\* pixel (reflect extension for both) and one overall variance per slice.
C1_LeeFormula ==
    \A t \in Newest :
        size >= 1 =>
            LET img == data_array_filled[t]
                overall == SliceVariance(img)
            IN \A p \in Pixels(img) :
                  filtered_data[t][p[1]][p[2]] = LeeAt(img, size, overall, p[1], p[2])

\* C1 witness: a slice filtered with a window of 3 samples or more where some
\* output is finite and differs from both the input sample and the local mean.
C1_Witness ==
    \E t \in Filtered :
        /\ size >= 3
        /\ \E p \in Pixels(data_array_filled[t]) :
              /\ IsFinite(filtered_data[t][p[1]][p[2]])
              /\ filtered_data[t][p[1]][p[2]] # data_array_filled[t][p[1]][p[2]]
              /\ filtered_data[t][p[1]][p[2]] # local_mean(data_array_filled[t], size, p[1], p[2])

\* C2: for window size 1 the filter is the identity on every input.
C2_SizeOneIdentity ==
    \A t \in Filtered : size = 1 => filtered_data[t] = data_array_filled[t]

\* C3: a uniform input is returned unchanged, for any window size.
C3_UniformUnchanged ==
    \A t \in Filtered :
        UniformImg(data_array_filled[t]) => filtered_data[t] = data_array_filled[t]

\* C4: for a finite input every weight is a defined value in [0, 1], and it is 0
\* where the local variance and the overall variance are both 0.
C4_WeightDefined ==
    \A t \in Filtered :
        FiniteImg(data_array_filled[t]) =>
            LET weights == img_weights(data_array_filled[t], size)
                variance == img_variance(data_array_filled[t], size)
                overall == overall_variance(data_array_filled[t])
            IN \A p \in Pixels(weights) :
                  /\ weights[p[1]][p[2]] # NaN
                  /\ Leq(Zero, weights[p[1]][p[2]]) /\ Leq(weights[p[1]][p[2]], One)
                  /\ (variance[p[1]][p[2]] = Zero /\ overall = Zero)
                        => weights[p[1]][p[2]] = Zero

\* C5: every slice of the stack is filtered exactly as that slice alone would be.
C5_SliceIndependence ==
    pc = "filtered" =>
        \A t \in 1..Len(ds[FilterInputName(notebook)]) :
            ds[FilteredName(notebook)][t] =
                lee_filter(FillnaImg(ds[FilterInputName(notebook)][t]), size)

\* C5 witness: a returned stack of two or more different slices, two of them
\* filtered to finite values.
C5_Witness ==
    /\ pc = "filtered"
    /\ \E t, u \in Filtered :
          /\ t # u
          /\ data_array[t] # data_array[u]
          /\ FiniteImg(filtered_data[t]) /\ FiniteImg(filtered_data[u])
          /\ filtered_data[t] # filtered_data[u]

\* The extents of a stack: time steps, and rows and columns of every slice.
Extents(stack) ==
    <<Len(stack), [t \in 1..Len(stack) |-> Len(stack[t])],
      [t \in 1..Len(stack) |-> [y \in 1..Len(stack[t]) |-> Len(stack[t][y])]]>>

\* C6: the filtered layer has the dimensions and extents of the input.
C6_ShapePreserved ==
    pc = "filtered" =>
        Extents(ds[FilteredName(notebook)]) = Extents(ds[FilterInputName(notebook)])

\* C6 witness: a returned stack with a leading time dimension of two or more
\* steps, filtered with a window wider than one sample.
C6_Witness ==
    /\ pc = "filtered" /\ size > 1
    /\ Len(ds[FilteredName(notebook)]) >= 2
    /\ Height(ds[FilteredName(notebook)][1]) >= 2

\* C7: no sample that reaches lee_filter is NaN, +infinity or -infinity.
C7_FilledFinite ==
    \A t \in 1..Len(data_array_filled) : FiniteImg(data_array_filled[t])

\* A valid window: odd, positive, no larger than either spatial dimension.
ValidSize(filter_size, img) ==
    /\ filter_size >= 1 /\ filter_size % 2 = 1
    /\ filter_size <= Height(img) /\ filter_size <= Width(img)

\* C8: no output is computed with an even, non-positive or oversized window.
C8_InvalidSizeNeverUsed ==
    \A t \in Filtered : ValidSize(size, data_array_filled[t])

\* v lies in the closed interval between a and b.
Between(v, a, b) == (Leq(a, v) /\ Leq(v, b)) \/ (Leq(b, v) /\ Leq(v, a))

\* C9: for a finite input every output is finite and lies between the local
\* mean and the input sample.
C9_Bounded ==
    \A t \in Filtered :
        FiniteImg(data_array_filled[t]) =>
            LET img == data_array_filled[t]
                mean == img_mean(img, size)
            IN \A p \in Pixels(img) :
                  /\ IsFinite(filtered_data[t][p[1]][p[2]])
                  /\ Between(filtered_data[t][p[1]][p[2]], mean[p[1]][p[2]], img[p[1]][p[2]])

\* The 3x3 window of (y, x) contains the centre (4, 4) of the 7x7 scenario.
NearCentre(y, x) == Abs(y - 4) <= 1 /\ Abs(x - 4) <= 1

\* C10: the 7x7 scenario (1 everywhere, 10 at the centre, size 3): the centre is
\* strictly between 1 and 10, its 8 neighbours are above 1, the rest is exactly 1.
C10_Scenario ==
    (data_array_filled = ScenarioBand /\ size = 3 /\ Len(filtered_data) = 1) =>
        \A y \in 1..7, x \in 1..7 :
            LET out == filtered_data[1][y][x]
            IN IF y = 4 /\ x = 4 THEN Less(One, out) /\ Less(out, Int2V(10))
               ELSE IF NearCentre(y, x) THEN Less(One, out)
               ELSE out = One

\* C10 witness: the scenario has been filtered and returned.
C10_Witness ==
    /\ pc = "filtered" /\ size = 3
    /\ data_array_filled = ScenarioBand
    /\ ds[FilteredName(notebook)][1][4][4] # NaN

\* C11: the local variance that enters the weight is non-negative at every pixel
\* of every slice handed to lee_filter.
C11_VarianceNonNegative ==
    \A t \in Filtered :
        LET variance == img_variance(data_array_filled[t], size)
        IN \A p \in Pixels(variance) : Leq(Zero, variance[p[1]][p[2]])

\* C12: apply_lee_filter has no side effect on its argument: from the call to the
\* return, and in every later cell, data_array and the layer of the dataset it
\* was read from hold the samples they held at the call, no-data included.
C12_ArgumentUnchanged ==
    [][pc \notin {"loaded", "db"} =>
          /\ data_array' = data_array
          /\ ds[FilterInputName(notebook)] = data_array
          /\ ds'[FilterInputName(notebook)] = data_array]_vars

\* C12 witness: apply_lee_filter has returned for an argument with a no-data
\* sample; the sample was filled with 0 in the copy and is still no-data in the
\* argument.
C12_Witness ==
    /\ pc = "filtered"
    /\ \E t \in 1..Len(data_array) : \E p \in Pixels(data_array[t]) :
          /\ data_array[t][p[1]][p[2]] = NaN
          /\ data_array_filled[t][p[1]][p[2]] = Zero
          /\ ds[FilterInputName(notebook)][t][p[1]][p[2]] = NaN

\* C13: blocks filtered by concurrent workers, in any interleaving, give the
\* result of filtering the slices one after the other: every block that is done
\* holds lee_filter of its own slice, whichever blocks were done before it.
C13_AnyInterleaving ==
    \A t \in 1..Len(filtered_data) :
        BlockDone(t) => filtered_data[t] = lee_filter(data_array_filled[t], size)

\* C13 witness: the block of a later time step is done before the block of the
\* first one, with a finite result that is not the input slice.
C13_Witness ==
    /\ pc = "vectorize"
    /\ ~BlockDone(1)
    /\ \E t \in 2..Len(filtered_data) :
          /\ BlockDone(t)
          /\ FiniteImg(filtered_data[t])
          /\ filtered_data[t] # data_array_filled[t]

(* ================= properties of the masking and of the export ========= *)

\* The cells (t, y, x) of a layer of the dataset.
Cells(layer) ==
    {c \in (1..Len(layer)) \X (1..Height(layer[1])) \X (1..Width(layer[1])) : TRUE}

At(layer, c) == layer[c[1]][c[2]][c[3]]

\* C14: in the masked layer every cell whose mask is not 0 (1, 2, 3, 255, NaN or
\* a value outside the enumeration) is NaN, and every cell whose mask is 0 holds
\* the value of the filtered layer.
C14_Masking ==
    pc = "masked" =>
        \A c \in Cells(ds["VV_filtered"]) :
            /\ At(ds["mask"], c) # Zero => At(ds["VV_filtered_masked"], c) = NaN
            /\ At(ds["mask"], c) = Zero =>
                  At(ds["VV_filtered_masked"], c) = At(ds["VV_filtered"], c)

\* C14 witness: a masked layer with a finite filtered value kept under mask 0,
\* and finite filtered values removed under the mask NaN and under a mask of the
\* enumeration.
C14_Witness ==
    /\ pc = "masked"
    /\ \E c \in Cells(ds["VV_filtered"]) :
          /\ At(ds["mask"], c) = Zero
          /\ IsFinite(At(ds["VV_filtered_masked"], c))
    /\ \E c \in Cells(ds["VV_filtered"]) :
          /\ At(ds["mask"], c) = NaN
          /\ IsFinite(At(ds["VV_filtered"], c))
    /\ \E c \in Cells(ds["VV_filtered"]) :
          /\ At(ds["mask"], c) \in {Int2V(1), Int2V(2), Int2V(3), Int2V(255)}
          /\ IsFinite(At(ds["VV_filtered"], c))

\* C15: the masked value of a cell at a time step depends only on the mask and
\* the filtered value of that cell at that time step: two cells, at any time
\* steps, with the same mask and the same filtered value have the same masked
\* value.
C15_OwnMask ==
    pc = "masked" =>
        \A c, e \in Cells(ds["VV_filtered"]) :
            (At(ds["mask"], c) = At(ds["mask"], e)
                /\ At(ds["VV_filtered"], c) = At(ds["VV_filtered"], e))
            => At(ds["VV_filtered_masked"], c) = At(ds["VV_filtered_masked"], e)

\* C15 witness: a valid cell with a finite filtered value at a later time step
\* whose mask at the first time step is not 0, and the same filtered value in a
\* valid cell of the first time step.
C15_Witness ==
    /\ pc = "masked"
    /\ \E c, e \in Cells(ds["VV_filtered"]) :
          /\ c[1] > 1 /\ e[1] = 1
          /\ At(ds["mask"], c) = Zero /\ At(ds["mask"], e) = Zero
          /\ At(ds["mask"], <<1, c[2], c[3]>>) # Zero
          /\ IsFinite(At(ds["VV_filtered"], c))
          /\ At(ds["VV_filtered"], c) = At(ds["VV_filtered"], e)
          /\ At(ds["VV_filtered_masked"], c) = At(ds["VV_filtered"], c)

(* ================== properties of the decibel conversion =============== *)

\* The layer each notebook converts to decibels, and the layer it stores.
DbInputName(nb) == IF nb = "uow" THEN "HH" ELSE "VV_filtered_masked"
DbOutputName(nb) == IF nb = "uow" THEN "HH_db" ELSE "VV_filtered_masked_db"

\* The state after the conversion to decibels.
Converted == pc \in {"db", "masked_db"}

\* 10^k as a sample, for any integer k.
TenToThe(k) == IF k >= 0 THEN <<Pow10(k), 1>> ELSE <<1, Pow10(-k)>>

\* db is 10 * log10(x) for the positive finite sample x: 10 * k when x = 10^k,
\* the term 10 * log10(x) for every other x.
IsTenLog10(db, x) ==
    IF IsLogTerm(db) THEN db = <<x[1], x[2], 10>>
    ELSE /\ IsFinite(db) /\ db[2] = 1 /\ db[1] % 10 = 0
         /\ x = TenToThe(db[1] \div 10)

\* C16: the decibel layer is 10 * log10 of its input cell by cell; an input that
\* is 0 or negative maps to -infinity or no-data, never to a finite value, and a
\* no-data input stays no-data.
C16_Decibels ==
    Converted =>
        \A c \in Cells(ds[DbInputName(notebook)]) :
            LET x == At(ds[DbInputName(notebook)], c)
                db == At(ds[DbOutputName(notebook)], c)
            IN /\ x = NaN => db = NaN
               /\ (IsFinite(x) /\ x[1] <= 0) => db \in {NInf, NaN}
               /\ (IsFinite(x) /\ x[1] > 0) => IsTenLog10(db, x)

\* C16 witness: a converted layer with a 0 input at -infinity, a no-data input
\* still no-data, and a positive input other than 1 at a finite value.
C16_Witness ==
    /\ Converted
    /\ \E c \in Cells(ds[DbInputName(notebook)]) :
          /\ At(ds[DbInputName(notebook)], c) = Zero
          /\ At(ds[DbOutputName(notebook)], c) = NInf
    /\ \E c \in Cells(ds[DbInputName(notebook)]) :
          /\ At(ds[DbInputName(notebook)], c) = NaN
          /\ At(ds[DbOutputName(notebook)], c) = NaN
    /\ \E c \in Cells(ds[DbInputName(notebook)]) :
          /\ Less(One, At(ds[DbInputName(notebook)], c))
          /\ IsFinite(At(ds[DbOutputName(notebook)], c))

\* q^k for a finite sample q and a natural k.
RECURSIVE PowV(_, _)
PowV(q, k) == IF k = 0 THEN One ELSE Mul(q, PowV(q, k - 1))

\* 10 ** (db / 10), for a finite db that is a multiple of 10 or a term
\* c * log10(q) with c a multiple of 10: 10^(c * log10(q) / 10) = q^(c / 10).
FromDb(db) ==
    IF IsLogTerm(db) THEN PowV(<<db[1], db[2]>>, db[3] \div 10)
    ELSE TenToThe(db[1] \div 10)

C18_LayersKept ==
    [][/\ \A name \in DOMAIN ds : name \in DOMAIN ds' /\ ds'[name] = ds[name]
       /\ ds' # ds => Cardinality(DOMAIN ds') = Cardinality(DOMAIN ds) + 1]_vars

\* C18 witness: the whole pipeline has run; the dataset holds the band, the mask
\* and the three derived layers, and each derived layer differs from the layer
\* it was derived from.
C18_Witness ==
    /\ pc = "done"
    /\ DOMAIN ds = {"VV", "mask", "time", "VV_filtered", "VV_filtered_masked",
                    "VV_filtered_masked_db"}
    /\ ds["VV_filtered"] # ds["VV"]
    /\ ds["VV_filtered_masked"] # ds["VV_filtered"]
    /\ ds["VV_filtered_masked_db"] # ds["VV_filtered_masked"]
    /\ FiniteImg(ds["VV"][1])

(* ========================= properties of the export ==================== *)

\* The layer each notebook exports.
ExportedName(nb) == IF nb = "uow" THEN "HH_dB_filtered" ELSE "VV_filtered_masked_db"

\* The time steps written by the loop, in the order they were written.
RECURSIVE LoopTimesteps(_)
LoopTimesteps(log) ==
    IF log = <<>> THEN <<>>
    ELSE IF log[1].cell = "loop" THEN <<log[1].timestep>> \o LoopTimesteps(Tail(log))
    ELSE LoopTimesteps(Tail(log))

\* Every array handed to write_cog so far is the 2-D slice of one time step of
\* the exported layer.
ExportedSlices ==
    \A i \in 1..Len(exported) :
        /\ exported[i].timestep \in 0..(Len(ds[ExportedName(notebook)]) - 1)
        /\ exported[i].array = ds[ExportedName(notebook)][exported[i].timestep + 1]

\* The loop has written the time steps 0, 1, ..., len(time) - 1 in this order,
\* each once.
LoopComplete ==
    LoopTimesteps(exported) = [i \in 1..Len(ds[ExportedName(notebook)]) |-> i - 1]

\* C19: every array handed to the export is a 2-D raster of one time step of one
\* band; the loop over the time steps ends, and when it has ended it has exported
\* each time step exactly once, in increasing order of the time index.
C19_ExportTerminates ==
    /\ []ExportedSlices
    /\ (pc = "loop") ~> (pc = "done" /\ LoopComplete)

\* C19 witness: the loop has ended after exporting two or more time steps whose
\* rasters differ.
C19_Witness ==
    /\ pc = "done" /\ notebook = "stac"
    /\ Len(LoopTimesteps(exported)) >= 2
    /\ \E i, j \in 1..Len(exported) :
          /\ exported[i].cell = "loop" /\ exported[j].cell = "loop"
          /\ exported[i].array # exported[j].array

(* ====================== properties of the error handling =============== *)

\* C20: a mask whose shape differs from the shape of the data makes the masking
\* step fail: no masked layer is produced from a (y, x) mask and a (time, y, x)
\* band.
C20_MismatchRejected == "VV_filtered_masked" \notin DOMAIN ds

(* ===================== properties of the whole pipeline ================ *)

\* db is 10 * log10(x) for any sample x of a filtered layer.
IsDecibelsOf(db, x) ==
    IF x = NaN THEN db = NaN
    ELSE IF x = Zero THEN db = NInf
    ELSE IF IsFinite(x) /\ x[1] > 0 THEN IsTenLog10(db, x)
    ELSE db \in {NaN, PInf}

\* C21: after the filter, mask and decibel cells and the export, every cell of
\* VV_filtered_masked_db whose mask is not 0 is NaN, in the layer and in every
\* exported raster of its time step, and every cell whose mask is 0 holds
\* 10 * log10 of the Lee-filtered value of that cell.
C21_PipelineEnd ==
    (pc = "done" /\ notebook = "stac") =>
        \A c \in Cells(ds["VV_filtered"]) :
            /\ At(ds["mask"], c) # Zero =>
                  /\ At(ds["VV_filtered_masked_db"], c) = NaN
                  /\ \A i \in 1..Len(exported) :
                        exported[i].timestep + 1 = c[1] =>
                            exported[i].array[c[2]][c[3]] = NaN
            /\ At(ds["mask"], c) = Zero =>
                  IsDecibelsOf(At(ds["VV_filtered_masked_db"], c), At(ds["VV_filtered"], c))

\* C21 witness: the pipeline has ended with a masked-out cell whose filtered value
\* is positive and which was exported as NaN, and with a valid cell exported at a
\* finite number of decibels.
C21_Witness ==
    /\ pc = "done" /\ notebook = "stac"
    /\ \E c \in Cells(ds["VV_filtered"]) : \E i \in 1..Len(exported) :
          /\ At(ds["mask"], c) # Zero
          /\ Less(Zero, At(ds["VV_filtered"], c))
          /\ exported[i].timestep + 1 = c[1]
          /\ exported[i].array[c[2]][c[3]] = NaN
    /\ \E c \in Cells(ds["VV_filtered"]) : \E i \in 1..Len(exported) :
          /\ At(ds["mask"], c) = Zero
          /\ exported[i].timestep + 1 = c[1]
          /\ IsFinite(exported[i].array[c[2]][c[3]])

\* C22: for a slice that is not uniform after zero-filling, the output at every
\* position where the input was NaN is a finite value.
C22_NoDataFilled ==
    \A t \in Newest :
        ~UniformImg(data_array_filled[t]) =>
            \A p \in Pixels(data_array[t]) :
                data_array[t][p[1]][p[2]] = NaN => IsFinite(filtered_data[t][p[1]][p[2]])

\* Every sample of the size x size window at (y, x) equals the sample at (y, x).
UniformWindow(img, filter_size, y, x) ==
    LET win == Window(img, filter_size, y, x)
    IN \A k \in 1..Len(win) : win[k] = img[y][x]

Written == DOMAIN ds' \ DOMAIN ds

\* C24: in the "stac" notebook no cell reads a layer before the cell that assigns
\* it has run: the filtered layer is in the dataset when the masked layer is
\* written, the masked layer when the decibel layer is written, the decibel layer
\* when anything is exported; and apply_lee_filter is called on the loaded band,
\* before any masked or decibel layer exists.
C24_DocumentOrder ==
    [][notebook = "stac" =>
          /\ "VV_filtered_masked" \in Written => "VV_filtered" \in DOMAIN ds
          /\ "VV_filtered_masked_db" \in Written => "VV_filtered_masked" \in DOMAIN ds
          /\ exported' # exported => "VV_filtered_masked_db" \in DOMAIN ds
          /\ data_array' # data_array =>
                /\ data_array' = ds["VV"]
                /\ DOMAIN ds \subseteq {"VV", "mask", "time"}]_vars

\* C24 witness: the four cells have run: the band was filtered, masked, converted
\* and every time step exported.
C24_Witness ==
    /\ pc = "done" /\ notebook = "stac"
    /\ {"VV_filtered", "VV_filtered_masked", "VV_filtered_masked_db"} \subseteq DOMAIN ds
    /\ data_array = ds["VV"]
    /\ Len(exported) > Len(ds["VV"])

(* ===================== properties of the written files ================= *)

\* The calendar dates of the time stamps a loaded dataset can hold.
Dates == {strftime(hours) : hours \in 0..(24 * NTime + 23)}

\* Every file name the export cells of a notebook can give to a dataset.
AllNames(nb, region, band) ==
    {SingleName(nb, region, band)}
        \cup {LoopName(nb, region, band, k, date) : k \in 0..NTime, date \in Dates}

\* C25: within one run of the export cells the file names are pairwise distinct,
\* also when two time steps fall on one calendar date; they differ from the names
\* the same cells give to the Antarctica dataset, and from every name of the
\* Datacube notebook.
C25_DistinctNames ==
    /\ \A i, j \in 1..Len(exported) :
          i # j => exported[i].filename # exported[j].filename
    /\ \A i \in 1..Len(exported) :
          /\ exported[i].filename \notin AllNames(notebook, "Antarctica", "HH")
          /\ notebook = "stac" =>
                exported[i].filename \notin
                    AllNames("datacube", "Australia", "VV")
                        \cup AllNames("datacube", "Antarctica", "HH")

\* C25 witness: a run has ended that exported two time steps of one calendar
\* date to two files.
C25_Witness ==
    /\ pc = "done" /\ notebook = "stac"
    /\ \E i, j \in 1..Len(exported) :
          /\ exported[i].cell = "loop" /\ exported[j].cell = "loop"
          /\ exported[i].timestep # exported[j].timestep
          /\ strftime(ds["time"][exported[i].timestep + 1])
                = strftime(ds["time"][exported[j].timestep + 1])
          /\ exported[i].filename # exported[j].filename
          /\ {exported[i].filename, exported[j].filename} \subseteq DOMAIN files

\* C26: running the export cells again succeeds and leaves the files of a single
\* run: no run ends in an error, and after every run the disk holds the folder
\* and exactly the files that run wrote, each with the raster that run wrote.
C26_RerunIdempotent ==
    /\ pc # "error"
    /\ pc = "done" =>
          /\ notebook = "stac" => output_dir
          /\ DOMAIN files = {exported[i].filename : i \in 1..Len(exported)}
          /\ \A i \in 1..Len(exported) : files[exported[i].filename] = exported[i].array

\* C26 witness: the export cells have run a second time, over the folder and the
\* files of the first run.
C26_Witness ==
    /\ pc = "done" /\ notebook = "stac"
    /\ runs >= 2
    /\ output_dir
    /\ Cardinality(DOMAIN files) >= 3

(* ========================= properties of the load ====================== *)

\* C27: in the "stac" notebook the Antarctic load groups by nrb:source_id, the
\* value its documentation names, and the Australian load by solar_day.
C27_GroupBy ==
    notebook = "stac" =>
        /\ groupby("ant_ds") = "nrb:source_id"
        /\ groupby("aus_ds") = "solar_day"

====
